---- MODULE Spec2Model ----
(***************************************************************************)
(* The AI Gateway access proxy worker.                                     *)
(*                                                                         *)
(* The repository holds two listings of the worker's POST handler:         *)
(*   - src/src/index.ts, the deployed handler, which decodes the JWT       *)
(*     payload without verifying it, and                                   *)
(*   - the listing at the end of src/README.md (lines 434-566), which      *)
(*     verifies the JWT against a cached JWKS (getPublicKeys, withRetry).  *)
(* The variable `handler` says which listing runs; it is chosen in Init    *)
(* and never changes.                                                      *)
(***************************************************************************)
EXTENDS Integers, Sequences, FiniteSets, TLC

(* ------------------------------------------------------------------ *)
(* Bounds of the model                                                  *)
(* ------------------------------------------------------------------ *)
NumReq == 2
MaxTicks == 2
MaxRotations == 1

(* ------------------------------------------------------------------ *)
(* Program constants                                                    *)
(* ------------------------------------------------------------------ *)
Delay1 == 5000
Delay2 == 10000
delays == <<Delay1, Delay2>>
TTL == 3600 * 1000
maxAttempts == Len(delays) + 1

CF_AI_GATEWAY_TOKEN == "s3cret"

Reqs == 1..NumReq

(* Amounts by which the clock (Date.now(), in ms) may advance in one step. *)
TickSteps == {Delay1, TTL - Delay1}

(* ------------------------------------------------------------------ *)
(* Tokens.  A token is the text of the cf-access-token header.  The     *)
(* tables below give, for each text used, what split('.'), atob and     *)
(* JSON.parse make of it, and who signed it.                            *)
(* ------------------------------------------------------------------ *)
Absent == "<absent>"

TokAlice   == "h.alice.k1"
TokBob     == "h.bob.k3"
TokForged  == "h.alice.evil"
TokExpired == "h.alice-exp.k1"
TokNoEmail == "h.noemail.k1"
TokOnePart == "garbage"
TokBadJson == "h.notjson.k1"

Tokens ==
    {TokAlice, TokBob, TokForged, TokExpired, TokNoEmail,
     TokOnePart, TokBadJson}

(* token.split('.') *)
Split(token) ==
    CASE token = TokAlice   -> <<"h", "alice", "k1">>
      [] token = TokBob     -> <<"h", "bob", "k3">>
      [] token = TokForged  -> <<"h", "alice", "evil">>
      [] token = TokExpired -> <<"h", "alice-exp", "k1">>
      [] token = TokNoEmail -> <<"h", "noemail", "k1">>
      [] token = TokOnePart -> <<"garbage">>
      [] token = TokBadJson -> <<"h", "notjson", "k1">>
      [] OTHER              -> <<token>>

(* JSON.parse(atob(part)): ok = FALSE when atob or JSON.parse throws;     *)
(* otherwise the parsed object's email ("" when the field is missing)     *)
(* and exp claims.                                                        *)
ParsePayload(part) ==
    CASE part = "alice"     -> [ok |-> TRUE, email |-> "alice@example.com", exp |-> 100 * TTL]
      [] part = "bob"       -> [ok |-> TRUE, email |-> "bob@example.com", exp |-> 100 * TTL]
      [] part = "alice-exp" -> [ok |-> TRUE, email |-> "alice@example.com", exp |-> 0]
      [] part = "noemail"   -> [ok |-> TRUE, email |-> "", exp |-> 100 * TTL]
      [] OTHER              -> [ok |-> FALSE, email |-> "", exp |-> 0]

(* JSON.stringify({ user_id: userEmail }) *)
Stringify(userEmail) == "{\"user_id\":\"" \o userEmail \o "\"}"


(* ------------------------------------------------------------------ *)
(* Inbound requests                                                     *)
(* ------------------------------------------------------------------ *)
HeaderNames == {"cf-access-token", "authorization", "cf-aig-metadata", "content-type", "accept"}

Headers(token, authorization, metadata) ==
    [h \in HeaderNames |->
        CASE h = "cf-access-token" -> token
          [] h = "authorization"   -> authorization
          [] h = "cf-aig-metadata" -> metadata
          [] h = "accept"          -> Absent
          [] OTHER                 -> "application/json"]

Inbound(token, authorization, metadata, body) ==
    [method |-> "POST", headers |-> Headers(token, authorization, metadata), body |-> body]

(* The inbound requests the model sends: every token with no other      *)
(* credentials, and one request that supplies its own Authorization and *)
(* cf-aig-metadata headers.                                             *)
Inbounds ==
    {Inbound(t, Absent, Absent, "body-1") : t \in Tokens \cup {Absent, ""}}
    \cup {Inbound(TokAlice, "Bearer caller", "{\"user_id\":\"mallory\"}", "body-2")}

NoInbound == Inbound(Absent, Absent, Absent, "")

(* ------------------------------------------------------------------ *)
(* Key sets: the value of a variable of type HonoJsonWebKey[] | null,   *)
(* or undefined when the JWKS document had no keys field.               *)
(* ------------------------------------------------------------------ *)
KNull == [kind |-> "null", keys |-> {}]
KUndefined == [kind |-> "undefined", keys |-> {}]
KArray(ks) == [kind |-> "array", keys |-> ks]

(* The key set the Access endpoint serves after n rotations. *)
EndpointKeys(n) ==
    CASE n = 0 -> {"k1"}
      [] n = 1 -> {"k2", "k3"}
      [] OTHER -> {"k3", "k4"}

(* The documents a successful GET of the certs endpoint can carry: the   *)
(* current key set, or a document without a keys field.                 *)
JwksDocuments(n) == {KArray(EndpointKeys(n)), KUndefined}

(* The ways fn() fails: a non-ok status, or fetch itself rejecting. *)
FetchFailures == {"status", "network"}

UpstreamStatuses == {200, 401, 502}

(* ------------------------------------------------------------------ *)
(* State                                                                *)
(* ------------------------------------------------------------------ *)
VARIABLES
    handler,          \* "index": src/src/index.ts; "readme": the README listing
    now,              \* Date.now()
    ticks,            \* number of clock steps taken
    rotations,        \* number of key rotations at the Access endpoint
    cachedKeys,       \* README: let cachedKeys
    cacheExpiration,  \* README: let cacheExpiration
    req               \* per inbound request: the handler invocation's state

vars == <<handler, now, ticks, rotations, cachedKeys, cacheExpiration, req>>

StartTime == 1000

(* proxyResponse before fetch(c.env.CF_AI_GATEWAY_URL, ...) has resolved *)
NoResponse == [from |-> "none"]

InitReq ==
    [ pc        |-> "idle",      \* idle, fetch, settle, sleep, proxy, done
      in        |-> NoInbound,   \* the inbound request
      now       |-> 0,           \* getPublicKeys: const now
      fetches   |-> 0,           \* calls of fetch(certsUri) made
      attempt   |-> 0,           \* withRetry: attempt
      lastError |-> "",          \* withRetry: lastError
      rejected  |-> "",          \* how the fetch of the attempt under way failed
      failAt    |-> 0,           \* when setTimeout (line 477) was called
      data      |-> KNull,       \* the JWKS document received: data.keys
      keys      |-> KNull,       \* handler: const keys, as getPublicKeys returned it
      verified  |-> FALSE,       \* Jwt.verifyWithJwks returned a payload
      logged    |-> "",          \* the message given to console.error
      calls     |-> <<>>,        \* the calls made to the AI Gateway
      proxyResponse |-> NoResponse,  \* handler: const proxyResponse
      resps     |-> <<>> ]       \* the responses returned to the caller

Init ==
    /\ handler \in {"index", "readme"}
    /\ now = StartTime
    /\ ticks = 0
    /\ rotations = 0
    /\ cachedKeys = KNull
    /\ cacheExpiration = 0
    /\ req = [r \in Reqs |-> InitReq]

(* ------------------------------------------------------------------ *)
(* Responses                                                            *)
(* ------------------------------------------------------------------ *)
GateResponse(status, error) == [from |-> "gate", status |-> status, body |-> error]

MissingToken == GateResponse(401, "Missing authentication token")
InvalidToken == GateResponse(401, "Invalid or malformed token")
EmailNotFound == GateResponse(401, "Email not found in token payload")
UpstreamFailed == GateResponse(502, "Failed to connect to the upstream service")

(* What the AI Gateway answers: its own status, headers and body *)
UpstreamResponse(status) ==
    [from |-> "upstream", status |-> status, headers |-> "upstream-headers",
     body |-> "upstream-body"]

(* return <response> from the handler *)
Return(rec, resp) == [rec EXCEPT !.pc = "done", !.resps = Append(@, resp)]

(* A bug: `token === undefined` in place of `!token` *)
FalsyUndefinedOnly(token) == token = Absent

(* !token *)
Falsy(token) == token = Absent \/ token = ""

(* ------------------------------------------------------------------ *)
(* Forwarding (step 3 of both handlers)                                 *)
(* ------------------------------------------------------------------ *)
(* A bug: headers.append / `if (!has)`: a header the caller sent is kept *)
ForwardHeadersKeepCaller(headers, userEmail) ==
    [h \in DOMAIN headers |->
        IF headers[h] # Absent THEN headers[h]
        ELSE IF h = "authorization" THEN "Bearer " \o CF_AI_GATEWAY_TOKEN
        ELSE IF h = "cf-aig-metadata" THEN Stringify(userEmail)
        ELSE headers[h]]

(* A bug: the identity token is stripped before forwarding *)
ForwardHeadersDropToken(headers, userEmail) ==
    [headers EXCEPT !["authorization"] = "Bearer " \o CF_AI_GATEWAY_TOKEN,
                    !["cf-aig-metadata"] = Stringify(userEmail),
                    !["cf-access-token"] = Absent]

ForwardHeaders(headers, userEmail) ==
    [headers EXCEPT !["authorization"] = "Bearer " \o CF_AI_GATEWAY_TOKEN,
                    !["cf-aig-metadata"] = Stringify(userEmail)]

Outbound(in, userEmail) ==
    [method |-> in.method, headers |-> ForwardHeaders(in.headers, userEmail), body |-> in.body]

(* Everything up to the await of fetch(c.env.CF_AI_GATEWAY_URL, ...). *)
Proxy(rec, userEmail) ==
    [rec EXCEPT !.pc = "proxy", !.calls = Append(@, Outbound(rec.in, userEmail))]

(* ------------------------------------------------------------------ *)
(* src/src/index.ts: step 2, decoding without verification              *)
(* ------------------------------------------------------------------ *)
DecodePayload(token) ==
    LET jwtParts == Split(token) IN
    IF Len(jwtParts) < 2
    THEN [ok |-> FALSE, email |-> "", error |-> "Invalid JWT structure"]
    ELSE LET payload == ParsePayload(jwtParts[2]) IN
         IF ~payload.ok
         THEN [ok |-> FALSE, email |-> "", error |-> "SyntaxError"]
         ELSE IF payload.email = ""
         THEN [ok |-> FALSE, email |-> "", error |-> "Email not found in token payload"]
         ELSE [ok |-> TRUE, email |-> payload.email, error |-> ""]

(* The handler of src/src/index.ts, from its entry to its first await. *)
IndexHandle(rec) ==
    LET token == rec.in.headers["cf-access-token"] IN
    IF Falsy(token)
    THEN Return(rec, MissingToken)
    ELSE LET d == DecodePayload(token) IN
         IF ~d.ok
         THEN Return([rec EXCEPT !.logged = d.error], InvalidToken)
         ELSE Proxy(rec, d.email)

(* Requests are numbered in the order they arrive. *)
Arrives(r) ==
    /\ req[r].pc = "idle"
    /\ \A q \in Reqs : q < r => req[q].pc # "idle"

IndexPost(r, in) ==
    /\ handler = "index"
    /\ Arrives(r)
    /\ req' = [req EXCEPT ![r] = IndexHandle([@ EXCEPT !.in = in])]
    /\ UNCHANGED <<handler, now, ticks, rotations, cachedKeys, cacheExpiration>>

(* ------------------------------------------------------------------ *)
(* The upstream call settles (both handlers)                            *)
(* ------------------------------------------------------------------ *)
(* A bug: an upstream error status is answered as a failed connection *)
ProxyReturnOkOnly(r, status) ==
    /\ req[r].pc = "proxy"
    /\ LET got == [req[r] EXCEPT !.proxyResponse = UpstreamResponse(status)] IN
       req' = [req EXCEPT ![r] =
                  IF status >= 500 THEN Return(got, UpstreamFailed)
                  ELSE Return(got, got.proxyResponse)]
    /\ UNCHANGED <<handler, now, ticks, rotations, cachedKeys, cacheExpiration>>

(* const proxyResponse = await fetch(...); return proxyResponse *)
ProxyReturn(r, status) ==
    /\ req[r].pc = "proxy"
    /\ LET got == [req[r] EXCEPT !.proxyResponse = UpstreamResponse(status)] IN
       req' = [req EXCEPT ![r] = Return(got, got.proxyResponse)]
    /\ UNCHANGED <<handler, now, ticks, rotations, cachedKeys, cacheExpiration>>

(* A bug: a failed upstream call is retried once at the gate *)
ProxyCatchRetries(r) ==
    /\ req[r].pc = "proxy"
    /\ req' = [req EXCEPT ![r] =
                  IF Len(@.calls) < 2
                  THEN [@ EXCEPT !.calls = Append(@, @[1])]
                  ELSE Return(@, UpstreamFailed)]
    /\ UNCHANGED <<handler, now, ticks, rotations, cachedKeys, cacheExpiration>>

(* A bug: a failed upstream call drops the cached entry *)
ProxyCatchClears(r) ==
    /\ req[r].pc = "proxy"
    /\ req' = [req EXCEPT ![r] = Return(@, UpstreamFailed)]
    /\ cachedKeys' = KNull
    /\ cacheExpiration' = 0
    /\ UNCHANGED <<handler, now, ticks, rotations>>

(* await fetch(...) threw: the catch block of step 3 *)
ProxyCatch(r) ==
    /\ req[r].pc = "proxy"
    /\ req' = [req EXCEPT ![r] = Return(@, UpstreamFailed)]
    /\ UNCHANGED <<handler, now, ticks, rotations, cachedKeys, cacheExpiration>>

(* ------------------------------------------------------------------ *)
(* README listing: Jwt.verifyWithJwks (hono), as the trusted primitive  *)
(* "verify the token against the key set, return the claims or fail".   *)
(* ------------------------------------------------------------------ *)
VerifyWithJwks(token, keys, t) ==
    LET jwtParts == Split(token) IN
    IF Len(jwtParts) # 3 \/ keys.kind # "array"
    THEN [ok |-> FALSE, email |-> ""]
    ELSE LET payload == ParsePayload(jwtParts[2]) IN
         IF /\ payload.ok
            /\ jwtParts[3] \in keys.keys
            /\ t < payload.exp
         THEN [ok |-> TRUE, email |-> payload.email]
         ELSE [ok |-> FALSE, email |-> ""]

(* ------------------------------------------------------------------ *)
(* README listing: getPublicKeys and withRetry                          *)
(* ------------------------------------------------------------------ *)
(* A bug: `now <= cacheExpiration` *)
CacheHitInclusive(t) == cachedKeys.kind = "array" /\ t <= cacheExpiration

(* cachedKeys && now < cacheExpiration *)
CacheHit(t) == cachedKeys.kind = "array" /\ t < cacheExpiration

(* A bug: the expiry is set in seconds, `now + 3600` *)
NewExpirationSeconds(t) == t + 3600

(* cacheExpiration = now + 3600 * 1000 *)
NewExpiration(t) == t + TTL

(* if (attempt < delays.length) *)
ShouldWait(attempt) == attempt < Len(delays)

(* A bug: every retry waits delays[0] *)
TimerDueFirstDelay(rec) == rec.failAt + delays[1]

(* setTimeout(resolve, delays[attempt]) fires once the delay has passed:   *)
(* the earliest time at which the timer set at failAt can fire.            *)
TimerDue(rec) == rec.failAt + delays[rec.attempt + 1]

(* fn() is called: fetch(certsUri) is in flight *)
CallFn(rec) == [rec EXCEPT !.pc = "fetch", !.fetches = @ + 1]

(* withRetry returns: its locals go out of scope *)
LeaveRetry(rec) ==
    [rec EXCEPT !.attempt = 0, !.lastError = "", !.rejected = "", !.data = KNull,
                !.failAt = 0]

(* A bug: the handler's only catch block is the proxy's *)
CatchAsUpstream(rec, errorMessage) ==
    Return([rec EXCEPT !.logged = errorMessage], UpstreamFailed)

(* The catch block of the handler's step 2 (lines 527-531) *)
CatchVerify(rec, errorMessage) ==
    Return([rec EXCEPT !.logged = errorMessage], InvalidToken)

(* The handler of the README listing from `const keys = await getPublicKeys` *)
(* on, once getPublicKeys has returned `keys`, to its next await.            *)
VerifyAndProxy(rec, keys) ==
    LET v == VerifyWithJwks(rec.in.headers["cf-access-token"], keys, now)
        got == [rec EXCEPT !.keys = keys, !.verified = v.ok]
    IN  IF ~v.ok
        THEN CatchVerify(got, "verification failed")
        ELSE IF v.email = ""
        THEN Return(got, EmailNotFound)
        ELSE Proxy(got, v.email)

(* The handler of the README listing, from its entry to its first await:     *)
(* the token check, and getPublicKeys up to the cache test.                  *)
ReadmePost(r, in) ==
    /\ handler = "readme"
    /\ Arrives(r)
    /\ LET rec == [req[r] EXCEPT !.in = in] IN
       IF Falsy(in.headers["cf-access-token"])
       THEN req' = [req EXCEPT ![r] = Return(rec, MissingToken)]
       ELSE LET called == [rec EXCEPT !.now = now] IN
            IF CacheHit(now)
            THEN req' = [req EXCEPT ![r] = VerifyAndProxy(called, cachedKeys)]
            ELSE req' = [req EXCEPT ![r] = CallFn(called)]
    /\ UNCHANGED <<handler, now, ticks, rotations, cachedKeys, cacheExpiration>>

(* The Access endpoint answers the JWKS fetch in flight with an ok status: *)
(* the document it serves is the one the handler will read.                *)
JwksServe(r, doc) ==
    /\ req[r].pc = "fetch"
    /\ doc \in JwksDocuments(rotations)
    /\ req' = [req EXCEPT ![r] = [@ EXCEPT !.pc = "settle", !.data = doc]]
    /\ UNCHANGED <<handler, now, ticks, rotations, cachedKeys, cacheExpiration>>

(* `Failed to fetch JWKS: ${response.status}` or the transport's error *)
ErrorOf(failure) ==
    IF failure = "status" THEN "Failed to fetch JWKS: 500" ELSE "fetch failed"

(* A bug: the fetched keys are merged into the cached set *)
JwksResolvedMerges(r) ==
    /\ req[r].pc = "settle"
    /\ LET keys == IF req[r].data.kind = "array" /\ cachedKeys.kind = "array"
                   THEN KArray(cachedKeys.keys \cup req[r].data.keys)
                   ELSE req[r].data IN
       /\ cachedKeys' = keys
       /\ cacheExpiration' = NewExpiration(req[r].now)
       /\ req' = [req EXCEPT ![r] = VerifyAndProxy(LeaveRetry(@), keys)]
    /\ UNCHANGED <<handler, now, ticks, rotations>>

(* A bug: a refresh never shortens the expiry, `Math.max(cacheExpiration, ...)` *)
JwksResolvedKeepsLaterExpiry(r) ==
    /\ req[r].pc = "settle"
    /\ LET keys == req[r].data
           e == NewExpiration(req[r].now) IN
       /\ cachedKeys' = keys
       /\ cacheExpiration' = IF cacheExpiration > e THEN cacheExpiration ELSE e
       /\ req' = [req EXCEPT ![r] = VerifyAndProxy(LeaveRetry(@), keys)]
    /\ UNCHANGED <<handler, now, ticks, rotations>>

(* fn() resolved with data.keys: withRetry returns it, getPublicKeys stores *)
(* and returns it, and the handler goes on.                                 *)
JwksResolved(r) ==
    /\ req[r].pc = "settle"
    /\ LET keys == req[r].data IN
       /\ cachedKeys' = keys
       /\ cacheExpiration' = NewExpiration(req[r].now)
       /\ req' = [req EXCEPT ![r] = VerifyAndProxy(LeaveRetry(@), keys)]
    /\ UNCHANGED <<handler, now, ticks, rotations>>

(* A bug: the first error is kept, `lastError ??= error` *)
CaughtKeepFirst(rec, failure) ==
    [rec EXCEPT !.rejected = failure,
                !.lastError = IF @ = "" THEN ErrorOf(failure) ELSE @]

(* catch (error) { lastError = error ... *)
Caught(rec, failure) ==
    [rec EXCEPT !.rejected = failure, !.lastError = ErrorOf(failure)]

(* A bug: a failed refresh drops the cached entry *)
JwksRejectedClears(r, failure) ==
    /\ req[r].pc = "fetch"
    /\ failure \in FetchFailures
    /\ LET rec == Caught(req[r], failure) IN
       IF ShouldWait(rec.attempt)
       THEN req' = [req EXCEPT ![r] = [rec EXCEPT !.pc = "sleep", !.failAt = now]]
       ELSE req' = [req EXCEPT ![r] = CatchVerify(rec, rec.lastError)]
    /\ cachedKeys' = KNull
    /\ cacheExpiration' = 0
    /\ UNCHANGED <<handler, now, ticks, rotations>>

(* fn() rejected: withRetry's catch block *)
JwksRejected(r, failure) ==
    /\ req[r].pc = "fetch"
    /\ failure \in FetchFailures
    /\ LET rec == Caught(req[r], failure) IN
       IF ShouldWait(rec.attempt)
       THEN req' = [req EXCEPT ![r] = [rec EXCEPT !.pc = "sleep", !.failAt = now]]
       ELSE \* the loop ends: throw lastError, caught by the handler
            req' = [req EXCEPT ![r] = CatchVerify(rec, rec.lastError)]
    /\ UNCHANGED <<handler, now, ticks, rotations, cachedKeys, cacheExpiration>>

(* The retry delay passes and the timer fires (at once when the clock is  *)
(* already past its due time): attempt++ and the next call of fn().       *)
RetryWake(r) ==
    /\ req[r].pc = "sleep"
    /\ req[r].attempt + 1 < maxAttempts
    /\ now' = IF now < TimerDue(req[r]) THEN TimerDue(req[r]) ELSE now
    /\ req' = [req EXCEPT ![r] = CallFn([@ EXCEPT !.attempt = @ + 1, !.failAt = 0])]
    /\ UNCHANGED <<handler, ticks, rotations, cachedKeys, cacheExpiration>>

(* ------------------------------------------------------------------ *)
(* Environment                                                          *)
(* ------------------------------------------------------------------ *)
(* The clock advances between requests.  The code reads the clock only in  *)
(* getPublicKeys (line 490) and in setTimeout (line 477): the time a retry  *)
(* takes passes in RetryWake, and any other time passes here, where a       *)
(* request still to come can tell it from the expiry of the cache.          *)
Tick(d) ==
    /\ ticks < MaxTicks
    /\ cacheExpiration # 0
    /\ \E r \in Reqs : req[r].pc = "idle"
    /\ now' = now + d
    /\ ticks' = ticks + 1
    /\ UNCHANGED <<handler, rotations, cachedKeys, cacheExpiration, req>>

(* The identity provider rotates its keys; only a JWKS fetch can tell, so   *)
(* rotations are taken while one is in flight.                              *)
Rotate ==
    /\ rotations < MaxRotations
    /\ \E r \in Reqs : req[r].pc = "fetch"
    /\ rotations' = rotations + 1
    /\ UNCHANGED <<handler, now, ticks, cachedKeys, cacheExpiration, req>>

Next ==
    \/ \E r \in Reqs, in \in Inbounds : IndexPost(r, in)
    \/ \E r \in Reqs, in \in Inbounds : ReadmePost(r, in)
    \/ \E r \in Reqs, doc \in JwksDocuments(rotations) : JwksServe(r, doc)
    \/ \E r \in Reqs : JwksResolved(r)
    \/ \E r \in Reqs, f \in FetchFailures : JwksRejected(r, f)
    \/ \E r \in Reqs : RetryWake(r)
    \/ \E r \in Reqs, st \in UpstreamStatuses : ProxyReturn(r, st)
    \/ \E r \in Reqs : ProxyCatch(r)
    \/ \E d \in TickSteps : Tick(d)
    \/ Rotate

Spec == Init /\ [][Next]_vars

(* ------------------------------------------------------------------ *)
(* Every network call eventually returns or fails, every timer set      *)
(* eventually fires, and the event loop runs every continuation that is *)
(* ready.                                                               *)
(* ------------------------------------------------------------------ *)
FetchSettles(r) ==
    \/ \E doc \in JwksDocuments(rotations) : JwksServe(r, doc)
    \/ \E f \in FetchFailures : JwksRejected(r, f)

UpstreamSettles(r) ==
    \/ \E st \in UpstreamStatuses : ProxyReturn(r, st)
    \/ ProxyCatch(r)

FairSpec ==
    /\ Spec
    /\ \A r \in Reqs :
          /\ WF_vars(FetchSettles(r))
          /\ WF_vars(JwksResolved(r))
          /\ WF_vars(RetryWake(r))
          /\ WF_vars(UpstreamSettles(r))

(* ================================================================== *)
(* Claims                                                               *)
(* ================================================================== *)
TokenOf(r) == req[r].in.headers["cf-access-token"]
Posted(r) == req[r].pc # "idle"
Answered(r) == req[r].pc = "done"
HasToken(r) == Posted(r) /\ TokenOf(r) # Absent /\ TokenOf(r) # ""

(* Well-formed parts and a decodable payload *)
Decodable(token) == Len(Split(token)) = 3 /\ ParsePayload(Split(token)[2]).ok
ClaimsOf(token) == ParsePayload(Split(token)[2])
CarriesEmail(token) == Decodable(token) /\ ClaimsOf(token).email # ""
SignerOf(token) == Split(token)[3]
Expired(token) == Decodable(token) /\ ClaimsOf(token).exp <= now

(* Every key the Access endpoint serves in the course of a run *)
AllEndpointKeys == UNION {EndpointKeys(n) : n \in 0..MaxRotations}

Gate401Missing == [from |-> "gate", status |-> 401, body |-> "Missing authentication token"]
Gate401Invalid == [from |-> "gate", status |-> 401, body |-> "Invalid or malformed token"]
Gate502 == [from |-> "gate", status |-> 502, body |-> "Failed to connect to the upstream service"]

Is401(r) == Len(req[r].resps) = 1 /\ req[r].resps[1].status = 401 /\ req[r].resps[1].from = "gate"

(* C1: a POST whose cf-access-token header is absent or empty is answered   *)
(* 401 {"error": "Missing authentication token"} at once, and the request   *)
(* makes no network call: no key-set fetch, no upstream call.               *)
C1_MissingTokenRejected ==
    \A r \in Reqs :
        (Posted(r) /\ TokenOf(r) \in {Absent, ""}) =>
            /\ req[r].pc = "done"
            /\ req[r].resps = <<Gate401Missing>>
            /\ req[r].fetches = 0
            /\ req[r].calls = <<>>

C1_Witness ==
    \E r \in Reqs, q \in Reqs :
        /\ Answered(r) /\ TokenOf(r) = ""
        /\ Answered(q) /\ TokenOf(q) = Absent

(* C2: a syntactically valid token (well-formed parts, decodable payload    *)
(* carrying an email) whose signature matches no key of the key set fails   *)
(* verification: the request ends with 401 and makes no upstream call.      *)
C2_BadSignatureRejected ==
    \A r \in Reqs :
        (HasToken(r) /\ CarriesEmail(TokenOf(r))
                     /\ SignerOf(TokenOf(r)) \notin AllEndpointKeys) =>
            /\ ~req[r].verified
            /\ req[r].calls = <<>>
            /\ Answered(r) => Is401(r)

(* C3: the upstream call of a request is issued only after that request's   *)
(* token has been verified and a non-empty email extracted; a request whose *)
(* token is malformed, expired, or lacks the email claim ends in 401 and    *)
(* never issues an upstream call.                                           *)
C3_ForwardOnlyWhenVerified ==
    \A r \in Reqs :
        /\ req[r].calls # <<>> => req[r].verified /\ CarriesEmail(TokenOf(r))
        /\ req[r].pc = "proxy" => req[r].verified /\ Len(req[r].calls) = 1
        /\ (HasToken(r) /\ (~Decodable(TokenOf(r)) \/ Expired(TokenOf(r))
                            \/ ~CarriesEmail(TokenOf(r)))) =>
              /\ req[r].calls = <<>>
              /\ Answered(r) => Is401(r)

(* C4: every response the gate produces itself is one of 401 Missing        *)
(* authentication token, 401 Invalid or malformed token, 502 Failed to      *)
(* connect to the upstream service; a malformed token, an invalid signature *)
(* and a missing email claim all yield the same 401 with the same body.     *)
C4_ThreeGateResponses ==
    \A r \in Reqs :
        /\ \A i \in 1..Len(req[r].resps) :
              req[r].resps[i].from = "gate" =>
                  req[r].resps[i] \in {Gate401Missing, Gate401Invalid, Gate502}
        /\ (Answered(r) /\ HasToken(r)
               /\ \/ ~Decodable(TokenOf(r))
                  \/ SignerOf(TokenOf(r)) \notin AllEndpointKeys
                  \/ ~CarriesEmail(TokenOf(r))) =>
              req[r].resps = <<Gate401Invalid>>

(* A step in which request r calls getPublicKeys (README listing) *)
CallsGetPublicKeys(r) ==
    /\ handler = "readme"
    /\ req[r].pc = "idle" /\ req'[r].pc # "idle"
    /\ req'[r].in.headers["cf-access-token"] \notin {Absent, ""}

(* A step in which the fetcher has succeeded for r and getPublicKeys returns *)
RefreshSucceeds(r) == req[r].pc = "settle" /\ req'[r].pc # "settle"

(* C5: getPublicKeys, called at time now: when a cached key set exists and  *)
(* now < expiresAt it returns the cached key set, fetches nothing and       *)
(* leaves keys and expiry alone; otherwise (no entry, or now >= expiresAt)  *)
(* it invokes the fetcher and, on success, stores the fetched keys with     *)
(* expiry now + 1 hour and returns the fetched keys.                        *)
C5_GetPublicKeys ==
    [][\A r \in Reqs :
        /\ CallsGetPublicKeys(r) =>
              IF cachedKeys.kind = "array" /\ now < cacheExpiration
              THEN /\ req'[r].keys = cachedKeys
                   /\ req'[r].fetches = 0 /\ req'[r].pc \in {"proxy", "done"}
                   /\ cachedKeys' = cachedKeys
                   /\ cacheExpiration' = cacheExpiration
              ELSE /\ req'[r].pc = "fetch" /\ req'[r].fetches = 1
                   /\ req'[r].now = now
        /\ RefreshSucceeds(r) =>
              /\ cachedKeys' = req[r].data
              /\ cacheExpiration' = req[r].now + 3600000
              /\ req'[r].keys = req[r].data
      ]_vars

(* A request refreshed the cache and a later one, inside the hour, was     *)
(* served the same key set from the cache.                                 *)
C5_Witness ==
    \E r \in Reqs, q \in Reqs :
        /\ req[r].fetches = 1 /\ req[r].keys.kind = "array" /\ req[r].pc \in {"proxy", "done"}
        /\ HasToken(q) /\ req[q].fetches = 0 /\ req[q].keys = req[r].keys
        /\ req[q].now > req[r].now /\ req[q].now < req[r].now + 3600000
        /\ cachedKeys = req[r].keys /\ cacheExpiration = req[r].now + 3600000

(* C6: any two verifications that both take place within one TTL window  *)
(* (1 hour) trigger at most one external key-set fetch in total.            *)
C6_AtMostOneFetch ==
    \A r \in Reqs, q \in Reqs :
        (r # q /\ HasToken(r) /\ HasToken(q) /\ handler = "readme"
               /\ req[q].now - req[r].now < 3600000
               /\ req[r].now - req[q].now < 3600000) =>
            req[r].fetches + req[q].fetches <= 1

(* C6 as amended: when a verification begins after an earlier one's key-set *)
(* lookup has refreshed the cache and returned a key collection, less than  *)
(* one TTL after the earlier one began, and no other request has fetched,   *)
(* it is served from the cache: the two trigger one refresh in total, and   *)
(* a refresh is at most 3 fetch attempts.                                   *)
C6_OneRefreshWhenSequential ==
    [][\A r \in Reqs, q \in Reqs :
        ( /\ r # q
          /\ CallsGetPublicKeys(q)
          /\ req[r].pc \in {"proxy", "done"}
          /\ req[r].fetches >= 1 /\ req[r].keys.kind = "array"
          /\ now < req[r].now + 3600000
          /\ \A o \in Reqs \ {r, q} : req[o].fetches = 0 ) =>
            /\ req'[q].fetches = 0
            /\ req'[q].keys = req[r].keys
            /\ req'[q].pc \in {"proxy", "done"}
            /\ req[r].fetches <= 3
      ]_vars

(* A refresh that needed a retry, then a second verification inside the    *)
(* hour that made no fetch.                                                *)
C6_Witness ==
    \E r \in Reqs, q \in Reqs :
        /\ r # q
        /\ req[r].fetches = 2 /\ req[r].keys.kind = "array"
        /\ HasToken(q) /\ req[q].fetches = 0 /\ req[q].keys = req[r].keys
        /\ req[q].pc \in {"proxy", "done"}
        /\ req[q].now >= req[r].now /\ req[q].now < req[r].now + 3600000

(* A token the key set ks verifies at the present time *)
ValidlySigned(token, ks) ==
    /\ CarriesEmail(token) /\ ~Expired(token)
    /\ ks.kind = "array" /\ SignerOf(token) \in ks.keys

(* C7: when the key-set endpoint fails on the first two attempts of a       *)
(* refresh and succeeds on the third, the refresh returns the keys of the   *)
(* third attempt and a validly signed token verifies; the second attempt    *)
(* starts at least 5 s after the first failure and the third at least 10 s  *)
(* after the second failure.                                                *)
C7_RetryThenSucceed ==
    [][\A r \in Reqs :
        /\ (req[r].pc = "fetch" /\ req'[r].pc = "sleep") =>
              req'[r].failAt = now /\ now' = now
        /\ (req[r].pc = "sleep" /\ req'[r].pc # "sleep") =>
              /\ req'[r].pc = "fetch"
              /\ req'[r].fetches = req[r].fetches + 1
              /\ req[r].fetches = 1 => now' >= req[r].failAt + 5000
              /\ req[r].fetches = 2 => now' >= req[r].failAt + 10000
        /\ (RefreshSucceeds(r) /\ req[r].fetches = 3) =>
              /\ req'[r].keys = req[r].data
              /\ ValidlySigned(TokenOf(r), req[r].data) =>
                    req'[r].verified /\ req'[r].pc = "proxy"
      ]_vars

(* Two failures, 15 s of delays, a third attempt that succeeds, and the   *)
(* token verified and forwarded.                                          *)
C7_Witness ==
    \E r \in Reqs :
        /\ req[r].fetches = 3 /\ req[r].verified /\ req[r].pc = "proxy"
        /\ req[r].keys.kind = "array" /\ SignerOf(TokenOf(r)) \in req[r].keys.keys
        /\ now >= req[r].now + 15000

(* The message of the error a failed fetch attempt throws *)
MessageOf(failure) ==
    IF failure = "status" THEN "Failed to fetch JWKS: 500" ELSE "fetch failed"

(* A step in which r's fetch attempt fails *)
AttemptFails(r) == req[r].pc = "fetch" /\ req'[r].pc \notin {"fetch", "settle"}

(* C8: withRetry ends after at most 3 attempts per refresh: it returns the  *)
(* first successful attempt's result and makes no later attempt, waits only *)
(* between attempts (not before the first, not after the last failure),     *)
(* and when all 3 fail it fails with the error of the third.                *)
C8_RetryBounded ==
    /\ [](\A r \in Reqs :
            /\ req[r].fetches <= 3
            /\ req[r].pc = "sleep" => req[r].fetches \in {1, 2})
    /\ [][\A r \in Reqs :
            /\ RefreshSucceeds(r) =>
                  req'[r].fetches = req[r].fetches /\ req'[r].pc \in {"proxy", "done"}
            /\ req[r].pc \in {"proxy", "done"} => req'[r].fetches = req[r].fetches
            /\ (req[r].pc = "idle" /\ req'[r].pc # "idle") =>
                  req'[r].pc # "sleep" /\ now' = now
            /\ (AttemptFails(r) /\ req[r].fetches < 3) =>
                  req'[r].pc = "sleep" /\ req'[r].fetches = req[r].fetches
            /\ (AttemptFails(r) /\ req[r].fetches = 3) =>
                  /\ req'[r].pc = "done" /\ now' = now
                  /\ req'[r].logged = MessageOf(req'[r].rejected)
         ]_vars

(* Three attempts that failed in different ways: the third error is the   *)
(* one the refresh failed with.                                           *)
C8_Witness ==
    \E r \in Reqs :
        /\ Answered(r) /\ req[r].fetches = 3
        /\ req[r].rejected = "network"
        /\ req[r].logged = "fetch failed"
        /\ now >= req[r].now + 15000

(* C9: when the key-set fetch fails on all attempts of a refresh, the       *)
(* request that triggered it ends with status 401 and makes no upstream     *)
(* call.                                                                    *)
C9_FetchFailureIs401 ==
    \A r \in Reqs :
        (Answered(r) /\ req[r].fetches = 3 /\ req[r].rejected # "") =>
            /\ Is401(r)
            /\ req[r].calls = <<>>
            /\ ~req[r].verified

C9_Witness ==
    \E r \in Reqs :
        /\ Answered(r) /\ req[r].fetches = 3 /\ req[r].rejected = "status"
        /\ ValidlySigned(TokenOf(r), KArray(EndpointKeys(rotations)))
        /\ req[r].resps = <<Gate401Invalid>>

(* C10: no negative caching: a refresh whose fetch fails leaves the cached  *)
(* key set and the expiry exactly as they were; the cache entry changes     *)
(* only in the step in which a successful fetch is stored.                  *)
C10_NoNegativeCaching ==
    [][ /\ (\E r \in Reqs : AttemptFails(r)) =>
              cachedKeys' = cachedKeys /\ cacheExpiration' = cacheExpiration
        /\ (cachedKeys' # cachedKeys \/ cacheExpiration' # cacheExpiration) =>
              \E r \in Reqs : RefreshSucceeds(r)
      ]_vars

(* A still-valid cache entry, and a later request (after the entry has    *)
(* expired) whose refresh failed on all attempts and left it in place.    *)
C10_Witness ==
    \E r \in Reqs :
        /\ Answered(r) /\ req[r].fetches = 3 /\ req[r].rejected # ""
        /\ cachedKeys.kind = "array"
        /\ cacheExpiration # 0 /\ cacheExpiration <= req[r].now

(* ------------------------------------------------------------------ *)
(* C11                                                                  *)
(* ------------------------------------------------------------------ *)
(* The request's getPublicKeys fetched a document and returned its keys *)
Refreshed(r) == req[r].fetches >= 1 /\ req[r].keys # KNull

(* C11: in every reachable state the cache entry is either the empty one  *)
(* of the start (null, 0) or the pair one single refresh wrote: the keys  *)
(* that refresh returned together with that refresh's own call time plus  *)
(* one hour.  Keys of one fetch are never paired with another's expiry.   *)
C11_EntryWrittenTogether ==
    \/ cachedKeys = KNull /\ cacheExpiration = 0
    \/ \E r \in Reqs :
          /\ Refreshed(r)
          /\ cachedKeys = req[r].keys
          /\ cacheExpiration = req[r].now + 3600000

(* Two refreshes that began at different times and received different    *)
(* documents have both completed.                                         *)
C11_Witness ==
    \E r, q \in Reqs :
        /\ Refreshed(r) /\ Refreshed(q)
        /\ req[r].now # req[q].now
        /\ req[r].keys # req[q].keys
        /\ cachedKeys = req[q].keys
        /\ cacheExpiration = req[q].now + 3600000
        /\ req[q].now < req[r].now

(* ------------------------------------------------------------------ *)
(* C12                                                                  *)
(* ------------------------------------------------------------------ *)
(* The upstream call of r settles in this step by throwing *)
UpstreamThrows(r) ==
    /\ req[r].pc = "proxy"
    /\ req'[r].pc = "done"
    /\ req'[r].proxyResponse = [from |-> "none"]

(* C12: when the upstream call of a request throws, the request is answered *)
(* 502 {"error": "Failed to connect to the upstream service"}, and the step  *)
(* leaves the cache entry, keys and expiry, as it was.                       *)
C12_UpstreamFailureIs502 ==
    [][\A r \in Reqs :
          UpstreamThrows(r) =>
              /\ req'[r].resps = <<Gate502>>
              /\ cachedKeys' = cachedKeys
              /\ cacheExpiration' = cacheExpiration]_vars

(* A verified request was answered 502 while the cache held a key set *)
C12_Witness ==
    \E r \in Reqs :
        /\ req[r].verified
        /\ Answered(r)
        /\ req[r].proxyResponse = [from |-> "none"]
        /\ req[r].resps = <<Gate502>>
        /\ cachedKeys.kind = "array"
        /\ cacheExpiration > now

(* ------------------------------------------------------------------ *)
(* C13                                                                  *)
(* ------------------------------------------------------------------ *)
(* C13: once the upstream has returned a response to a request's call, the *)
(* caller receives that very response, with its status, headers and body,   *)
(* whatever the status: an upstream 401 or 502 is passed through and is     *)
(* never replaced by one of the gate's own responses.                       *)
C13_UpstreamPassthrough ==
    \A r \in Reqs :
        req[r].proxyResponse # [from |-> "none"] =>
            /\ Answered(r)
            /\ req[r].calls # <<>>
            /\ req[r].resps = <<req[r].proxyResponse>>
            /\ req[r].resps[1].headers = "upstream-headers"
            /\ req[r].resps[1].body = "upstream-body"
            /\ req[r].resps[1] \notin {Gate401Missing, Gate401Invalid, Gate502}

(* One verified request got the upstream's 502 back, another its 401 *)
C13_Witness ==
    \E r, q \in Reqs :
        /\ req[r].verified /\ Answered(r)
        /\ req[r].proxyResponse.from = "upstream"
        /\ req[r].resps[1].status = 502
        /\ req[q].verified /\ Answered(q)
        /\ req[q].proxyResponse.from = "upstream"
        /\ req[q].resps[1].status = 401

(* ------------------------------------------------------------------ *)
(* C14                                                                  *)
(* ------------------------------------------------------------------ *)
(* JSON.stringify({user_id: e}) for the emails the tokens carry *)
MetadataFor(email) ==
    CASE email = "alice@example.com" -> "{\"user_id\":\"alice@example.com\"}"
      [] email = "bob@example.com" -> "{\"user_id\":\"bob@example.com\"}"
      [] OTHER -> "?"

(* C14: every upstream call a request issues uses the inbound method and  *)
(* the inbound body unchanged, carries Authorization "Bearer " followed by *)
(* the configured secret, and carries cf-aig-metadata the serialization of *)
(* {user_id: e}, e the email claim of that request's own token; neither    *)
(* value depends on an Authorization or cf-aig-metadata the caller sent.   *)
C14_OutboundCall ==
    \A r \in Reqs :
        \A i \in 1..Len(req[r].calls) :
            LET call == req[r].calls[i] IN
            /\ CarriesEmail(TokenOf(r))
            /\ call.method = req[r].in.method
            /\ call.body = req[r].in.body
            /\ call.headers["authorization"] = "Bearer s3cret"
            /\ call.headers["cf-aig-metadata"] = MetadataFor(ClaimsOf(TokenOf(r)).email)

(* Two verified requests are forwarded, each under its own email: one sent  *)
(* an Authorization and a cf-aig-metadata header of its own, the other is   *)
(* another user's.                                                          *)
C14_Witness ==
    \E r, q \in Reqs :
        /\ req[r].verified /\ Len(req[r].calls) = 1
        /\ req[r].in.headers["authorization"] = "Bearer caller"
        /\ req[r].in.headers["cf-aig-metadata"] = "{\"user_id\":\"mallory\"}"
        /\ req[r].calls[1].headers["cf-aig-metadata"] = "{\"user_id\":\"alice@example.com\"}"
        /\ req[q].verified /\ Len(req[q].calls) = 1
        /\ req[q].calls[1].headers["cf-aig-metadata"] = "{\"user_id\":\"bob@example.com\"}"

(* ------------------------------------------------------------------ *)
(* C15                                                                  *)
(* ------------------------------------------------------------------ *)
(* The rotation of the Access endpoint at which it served this key set *)
VersionOf(ks) == CHOOSE n \in 0..MaxRotations : EndpointKeys(n) = ks.keys

(* C15: concurrent refreshes need no mutual exclusion: a refresh that     *)
(* completes never replaces the cached key set with one the endpoint      *)
(* served at an earlier rotation than the one cached.                     *)
C15_NeverOlderKeys ==
    [][\A r \in Reqs :
          (/\ RefreshSucceeds(r)
           /\ cachedKeys.kind = "array"
           /\ req[r].data.kind = "array") =>
              /\ cachedKeys'.kind = "array"
              /\ VersionOf(cachedKeys') >= VersionOf(cachedKeys)]_vars

(* ------------------------------------------------------------------ *)
(* C16                                                                  *)
(* ------------------------------------------------------------------ *)
(* C16: key rotation.  A request's token carries an email, is unexpired,   *)
(* and is signed by a key that the cached key set lacks and the set the    *)
(* endpoint now serves holds.  When that request's refresh completes, the  *)
(* cache holds the new set alone (the old one is replaced, not merged      *)
(* into), the token verifies, and the request is forwarded.                *)
C16_RotationRefresh ==
    [][\A r \in Reqs :
          (/\ RefreshSucceeds(r)
           /\ cachedKeys.kind = "array"
           /\ ValidlySigned(TokenOf(r), req[r].data)
           /\ SignerOf(TokenOf(r)) \notin cachedKeys.keys) =>
              /\ cachedKeys' = req[r].data
              /\ \A k \in cachedKeys.keys \ req[r].data.keys : k \notin cachedKeys'.keys
              /\ req'[r].keys = req[r].data
              /\ req'[r].verified
              /\ req'[r].pc = "proxy"
              /\ Len(req'[r].calls) = 1]_vars

(* The entry {k1} of an earlier refresh had expired when a token signed by  *)
(* k3 arrived; the refresh brought {k2, k3} and the request is forwarded.   *)
C16_Witness ==
    \E r, q \in Reqs :
        /\ Refreshed(q) /\ req[q].keys = [kind |-> "array", keys |-> {"k1"}]
        /\ req[r].now >= req[q].now + 3600000
        /\ TokenOf(r) = "h.bob.k3"
        /\ Refreshed(r) /\ req[r].verified /\ req[r].pc = "proxy"
        /\ cachedKeys = [kind |-> "array", keys |-> {"k2", "k3"}]

(* ------------------------------------------------------------------ *)
(* C17                                                                  *)
(* ------------------------------------------------------------------ *)
(* The terminal outcomes of a request: the gate's 401, the gate's 502, or *)
(* the response of the upstream.                                          *)
IsOutcome(resp) ==
    \/ resp.from = "gate" /\ resp.status \in {401, 502}
    \/ resp.from = "upstream"

(* C17: no retries at the gate.  A request looks the key set up at most    *)
(* once (at most 3 fetch attempts), verifies at most once and calls the    *)
(* upstream at most once; it has at most one response, which is a 401, a   *)
(* 502 or the upstream's, and once it has it the request does nothing      *)
(* more; and, every network call returning or failing in the end, every    *)
(* request that arrived is eventually answered.                            *)
(* What holds of a request at any time *)
OneOfEach(rec) ==
    /\ rec.fetches <= 3
    /\ Len(rec.calls) <= 1
    /\ Len(rec.resps) <= 1
    /\ rec.pc = "done" <=> Len(rec.resps) = 1
    /\ rec.pc = "done" => IsOutcome(rec.resps[1])
    /\ rec.pc \in {"idle", "fetch", "settle", "sleep"} =>
          ~rec.verified /\ rec.keys = KNull /\ rec.calls = <<>>

C17_OneTerminalOutcome ==
    /\ \A r \in Reqs : OneOfEach(req[r])
    /\ [][\A r \in Reqs :
            /\ OneOfEach(req'[r])
            /\ Posted(r) => /\ req'[r].pc # "idle"
                            /\ req'[r].now = req[r].now
                            /\ req'[r].in = req[r].in
            /\ req[r].pc \in {"proxy", "done"} =>
                  /\ req'[r].pc \in {"proxy", "done"}
                  /\ req'[r].fetches = req[r].fetches
                  /\ req'[r].keys = req[r].keys
                  /\ req'[r].verified = req[r].verified
                  /\ req'[r].calls = req[r].calls
            /\ Answered(r) => req'[r] = req[r]]_vars
    /\ <>[](\A r \in Reqs : Posted(r) => Answered(r))

(* Both requests are answered, one after three fetch attempts and an       *)
(* upstream call, the other by the gate.                                    *)
C17_Witness ==
    \E r, q \in Reqs :
        /\ Answered(r) /\ req[r].fetches = 3 /\ Len(req[r].calls) = 1
        /\ req[r].resps[1].from = "upstream"
        /\ Answered(q) /\ req[q].resps[1].from = "gate"
        /\ req[q].resps[1].status = 502

(* ------------------------------------------------------------------ *)
(* C18                                                                  *)
(* ------------------------------------------------------------------ *)
(* C18: across any interleaving of getPublicKeys calls the stored expiry   *)
(* never decreases, and an entry stays a cache hit for a full hour counted *)
(* from the moment it is stored, the moment the successful fetch           *)
(* completes, retry delays included.                                       *)
C18_FullTtlFromStore ==
    [][\A r \in Reqs :
          RefreshSucceeds(r) =>
              /\ cacheExpiration' >= cacheExpiration
              /\ cacheExpiration' >= now' + 3600000]_vars

(* ------------------------------------------------------------------ *)
(* C19                                                                  *)
(* ------------------------------------------------------------------ *)
(* C19: whenever the expiry is non-zero the cached key set is a non-null   *)
(* collection: a success response without a keys field never becomes the   *)
(* cache entry, and never makes a later request inside the TTL window      *)
(* fetch again.                                                            *)
C19_StoredKeysAreCollection ==
    /\ [](cacheExpiration # 0 => cachedKeys.kind = "array")
    /\ [][\A r \in Reqs :
            /\ (RefreshSucceeds(r) /\ req[r].data.kind # "array") =>
                  cachedKeys' = cachedKeys /\ cacheExpiration' = cacheExpiration
            /\ (CallsGetPublicKeys(r) /\ now < cacheExpiration) =>
                  req'[r].fetches = 0]_vars

(* ------------------------------------------------------------------ *)
(* C20                                                                  *)
(* ------------------------------------------------------------------ *)
(* C20: the headers of the upstream call are the inbound headers except    *)
(* for exactly two names, authorization and cf-aig-metadata: every other   *)
(* inbound header, cf-access-token included, is forwarded with its value,  *)
(* and no other header is added or removed.                                *)
C20_HeadersFrame ==
    \A r \in Reqs :
        \A i \in 1..Len(req[r].calls) :
            LET out == req[r].calls[i].headers
                inb == req[r].in.headers IN
            /\ DOMAIN out = DOMAIN inb
            /\ \A h \in DOMAIN inb \ {"authorization", "cf-aig-metadata"} :
                  out[h] = inb[h]
            /\ out["cf-access-token"] = TokenOf(r)
            /\ out["authorization"] # "<absent>"
            /\ out["cf-aig-metadata"] # "<absent>"

(* A call went out for a request that sent neither of the two headers: it  *)
(* carries both, the token and the content-type as sent, and still no      *)
(* accept header.                                                          *)
C20_Witness ==
    \E r \in Reqs :
        /\ Len(req[r].calls) = 1
        /\ req[r].in.headers["authorization"] = "<absent>"
        /\ req[r].in.headers["cf-aig-metadata"] = "<absent>"
        /\ req[r].calls[1].headers["cf-access-token"] = "h.alice.k1"
        /\ req[r].calls[1].headers["authorization"] = "Bearer s3cret"
        /\ req[r].calls[1].headers["content-type"] = "application/json"
        /\ req[r].calls[1].headers["accept"] = "<absent>"

====
